---- MODULE Spec2Model ----
(***************************************************************************)
(* Model of controllers/post.controller.go: the PostController handlers    *)
(* CreatePost, UpdatePost, FindPostById, FindPosts and DeletePost over the *)
(* posts table reached through the gorm.DB handle.                         *)
(*                                                                         *)
(* Strings are modelled by what the code does with them: query values and  *)
(* digits are sequences of characters (Atoi parses them), store error      *)
(* messages are sequences of words (strings.Contains searches them), and   *)
(* titles, contents, images and user ids are opaque strings whose zero     *)
(* value is "".  Time is a natural number; 0 is the zero time.Time.        *)
(***************************************************************************)
EXTENDS Integers, Sequences, FiniteSets, TLC

VARIABLES
    posts,      \* the posts table, in the order a scan without ORDER BY returns it
    nextId,     \* the next id the store generates (ids are never reused)
    clock,      \* the wall clock read by time.Now()
    req,        \* the last request served (sequential service)
    resp,       \* the response written for it by ctx.JSON
    dbres,      \* what the last store call of that request returned
    procs       \* per request-handling goroutine: position, locals, response

vars == <<posts, nextId, clock, req, resp, dbres, procs>>

----------------------------------------------------------------------------
(* Bounds of the model *)

MaxClock == 2
MaxId == 2
MaxListPosts == 15
MaxPage == 3
MaxLimit == 11

Titles == {"t1", "t2"}
Contents == {"c1"}
Images == {"i1"}
Users == {"u1", "u2"}
Procs == {"g1", "g2"}

PostIds == 1..MaxId

----------------------------------------------------------------------------
(* net/http status codes used by the handlers *)

StatusOK == 200
StatusCreated == 201
StatusNoContent == 204
StatusBadRequest == 400
StatusNotFound == 404
StatusConflict == 409
StatusBadGateway == 502

(* ctx.DefaultQuery defaults of FindPosts *)
DefaultPage == <<"1">>
DefaultLimit == <<"1", "0">>

----------------------------------------------------------------------------
(* Store errors, as the words of result.Error.Error() *)

NoError == <<>>
ErrDuplicateKey ==
    <<"ERROR:", "duplicate", "key", "value", "violates", "unique", "constraint">>
ErrRecordNotFound == <<"record", "not", "found">>
ErrConnRefused == <<"dial", "tcp:", "connect:", "connection", "refused">>

\* strings.Contains(s, sub), on word sequences
Contains(s, sub) ==
    \E i \in 0..(Len(s) - Len(sub)) : SubSeq(s, i + 1, i + Len(sub)) = sub

----------------------------------------------------------------------------
(* models.Post and the request payloads *)

ZeroPost ==
    [id |-> 0, title |-> "", content |-> "", image |-> "", user |-> "",
     createdAt |-> 0, updatedAt |-> 0]

\* a payload ShouldBindJSON rejects
Malformed == [ok |-> FALSE, title |-> "", content |-> "", image |-> ""]

CreatePayloads ==
    {[ok |-> TRUE, title |-> t, content |-> c, image |-> i] :
        t \in Titles, c \in Contents, i \in Images} \cup {Malformed}

\* the fields of models.UpdatePost are optional: "" is an absent title
UpdatePayloads ==
    {[ok |-> TRUE, title |-> t, content |-> c, image |-> i] :
        t \in Titles \cup {""}, c \in Contents, i \in Images}
    \cup {Malformed}

NoPayload == [ok |-> TRUE, title |-> "", content |-> "", image |-> ""]

IdsOf(store) == {store[i].id : i \in DOMAIN store}
TitlesOf(store) == {store[i].title : i \in DOMAIN store}
RowOf(store, id) == store[CHOOSE i \in DOMAIN store : store[i].id = id]

----------------------------------------------------------------------------
(* The persistence layer, as the handlers use it *)

\* the unique index on posts.title: does a row other than exceptId hold title?
TitleTaken(store, title, exceptId) ==
    \E i \in DOMAIN store : store[i].title = title /\ store[i].id # exceptId

\* pc.DB.Create(&newPost): insert one row; the store assigns the id
DBCreate(store, value, newId, up) ==
    IF ~up THEN [posts |-> store, err |-> ErrConnRefused, value |-> value]
    ELSE IF TitleTaken(store, value.title, 0)
    THEN [posts |-> store, err |-> ErrDuplicateKey, value |-> value]
    ELSE LET row == [value EXCEPT !.id = newId]
         IN  [posts |-> Append(store, row), err |-> NoError, value |-> row]

\* pc.DB.First(&post, "id = ?", postId): the row, or an error when there is none
DBFirst(store, id, up) ==
    IF ~up THEN [err |-> ErrConnRefused, value |-> ZeroPost]
    ELSE IF id \notin IdsOf(store)
    THEN [err |-> ErrRecordNotFound, value |-> ZeroPost]
    ELSE [err |-> NoError, value |-> RowOf(store, id)]

\* Updates(struct) assigns the non-zero fields of values
Merge(row, values) ==
    [id        |-> row.id,
     title     |-> IF values.title # "" THEN values.title ELSE row.title,
     content   |-> IF values.content # "" THEN values.content ELSE row.content,
     image     |-> IF values.image # "" THEN values.image ELSE row.image,
     user      |-> IF values.user # "" THEN values.user ELSE row.user,
     createdAt |-> IF values.createdAt # 0 THEN values.createdAt ELSE row.createdAt,
     updatedAt |-> IF values.updatedAt # 0 THEN values.updatedAt ELSE row.updatedAt]

\* the table with the row of id replaced by row
Replace(store, id, row) ==
    [i \in DOMAIN store |-> IF store[i].id = id THEN row ELSE store[i]]

\* pc.DB.Model(&updatedPost).Updates(postToUpdate):
\* UPDATE posts SET <non-zero fields> WHERE id = model.id.
\* No matching row is no error (zero rows affected).
DBUpdates(store, model, values, up) ==
    IF ~up THEN [posts |-> store, err |-> ErrConnRefused, rows |-> 0]
    ELSE IF model.id \notin IdsOf(store)
    THEN [posts |-> store, err |-> NoError, rows |-> 0]
    ELSE LET row == Merge(RowOf(store, model.id), values)
         IN  IF TitleTaken(store, row.title, model.id)
             THEN [posts |-> store, err |-> ErrDuplicateKey, rows |-> 0]
             ELSE [posts |-> Replace(store, model.id, row),
                   err |-> NoError, rows |-> 1]

\* pc.DB.Delete(&models.Post{}, "id = ?", postId):
\* DELETE FROM posts WHERE id = postId.  No matching row is no error.
DBDelete(store, id, up) ==
    IF ~up THEN [posts |-> store, err |-> ErrConnRefused, rows |-> 0]
    ELSE [posts |-> SelectSeq(store, LAMBDA r : r.id # id),
          err |-> NoError,
          rows |-> Cardinality({i \in DOMAIN store : store[i].id = id})]

----------------------------------------------------------------------------
(* The handlers' own computations *)

Response(status, data) == [status |-> status, data |-> data]

Request(op, postId, currentUser, payload) ==
    [op |-> op, postId |-> postId, user |-> currentUser, payload |-> payload]

StoreResult(err, rows) == [err |-> err, rows |-> rows]

WellFormed(r) == r.payload.ok

NoStoreCall == StoreResult(NoError, 0)

\* CreatePost: the models.Post built from the payload
NewPost(currentUser, payload, now) ==
    [id |-> 0, title |-> payload.title, content |-> payload.content,
     image |-> payload.image, user |-> currentUser,
     createdAt |-> now, updatedAt |-> now]

\* CreatePostResponse looking for another store's wording of the violation
CreatePostResponse_OtherWording(result) ==
    IF result.err # NoError
    THEN IF Contains(result.err, <<"Duplicate", "entry">>)
         THEN Response(StatusConflict, <<>>)
         ELSE Response(StatusBadGateway, <<>>)
    ELSE Response(StatusCreated, <<result.value>>)

\* CreatePostResponse not inspecting result.Error
CreatePostResponse_ErrorIgnored(result) ==
    Response(StatusCreated, <<result.value>>)

\* CreatePost: the response for the result of DB.Create
CreatePostResponse(result) ==
    IF result.err # NoError
    THEN IF Contains(result.err, <<"duplicate", "key">>)
         THEN Response(StatusConflict, <<>>)
         ELSE Response(StatusBadGateway, <<>>)
    ELSE Response(StatusCreated, <<result.value>>)

\* PostToUpdate stamping CreatedAt as CreatePost does
PostToUpdate_CreatedNow(currentUser, payload, updatedPost, now) ==
    [id |-> 0, title |-> payload.title, content |-> payload.content,
     image |-> payload.image, user |-> currentUser,
     createdAt |-> now, updatedAt |-> now]

\* UpdatePost: the models.Post handed to Updates
PostToUpdate(currentUser, payload, updatedPost, now) ==
    [id |-> 0, title |-> payload.title, content |-> payload.content,
     image |-> payload.image, user |-> currentUser,
     createdAt |-> updatedPost.createdAt, updatedAt |-> now]

\* UpdateLookupFailed letting "record not found" through
UpdateLookupFailed_NotFoundIgnored(first) ==
    first.err # NoError /\ first.err # ErrRecordNotFound

\* UpdatePost: the response for the result of DB.First
UpdateLookupFailed(first) == first.err # NoError

\* UpdatePost: the response after Updates; its result is not inspected.
\* Updates assigns the values it sets to the model it was given.
UpdatePostResponse(updatedPost, postToUpdate, result) ==
    Response(StatusOK, <<Merge(updatedPost, postToUpdate)>>)

\* FindPostById: the response for the result of DB.First
FindPostByIdResponse(first) ==
    IF first.err # NoError
    THEN Response(StatusNotFound, <<>>)
    ELSE Response(StatusOK, <<first.value>>)

\* DeletePostResponse not inspecting result.Error
DeletePostResponse_ErrorIgnored(result) == Response(StatusNoContent, <<>>)

\* DeletePost: the response for the result of DB.Delete
DeletePostResponse(result) ==
    IF result.err # NoError
    THEN Response(StatusNotFound, <<>>)
    ELSE Response(StatusNoContent, <<>>)

----------------------------------------------------------------------------
(* Sequential service: one request at a time, each handler start to end *)

Idle ==
    [pc |-> "idle", req |-> Request("none", 0, "", NoPayload),
     now |-> 0, updatedPost |-> ZeroPost, resp |-> Response(0, <<>>),
     startAbsent |-> FALSE, dbres |-> NoStoreCall]

Init ==
    /\ posts = <<>>
    /\ nextId = 1
    /\ clock = 1
    /\ req = Request("none", 0, "", NoPayload)
    /\ resp = Response(0, <<>>)
    /\ dbres = NoStoreCall
    /\ procs = [p \in Procs |-> Idle]

CreatePost(currentUser, payload, up) ==
    /\ req' = Request("CreatePost", 0, currentUser, payload)
    /\ IF ~payload.ok
       THEN /\ resp' = Response(StatusBadRequest, <<>>)
            /\ dbres' = NoStoreCall
            /\ UNCHANGED <<posts, nextId>>
       ELSE LET now == clock
                newPost == NewPost(currentUser, payload, now)
                result == DBCreate(posts, newPost, nextId, up)
            IN  /\ result.err = NoError => nextId <= MaxId
                /\ posts' = result.posts
                /\ nextId' = IF result.err = NoError THEN nextId + 1 ELSE nextId
                /\ dbres' = StoreResult(result.err, IF result.err = NoError THEN 1 ELSE 0)
                /\ resp' = CreatePostResponse(result)
    /\ UNCHANGED <<clock, procs>>

UpdatePost(postId, currentUser, payload, upFirst, upUpdates) ==
    /\ req' = Request("UpdatePost", postId, currentUser, payload)
    /\ IF ~payload.ok
       THEN /\ resp' = Response(StatusBadGateway, <<>>)
            /\ dbres' = NoStoreCall
            /\ UNCHANGED posts
       ELSE LET first == DBFirst(posts, postId, upFirst)
            IN  IF UpdateLookupFailed(first)
                THEN /\ resp' = Response(StatusNotFound, <<>>)
                     /\ dbres' = StoreResult(first.err, 0)
                     /\ UNCHANGED posts
                ELSE LET updatedPost == first.value
                         now == clock
                         postToUpdate ==
                             PostToUpdate(currentUser, payload, updatedPost, now)
                         result ==
                             DBUpdates(posts, updatedPost, postToUpdate, upUpdates)
                     IN  /\ posts' = result.posts
                         /\ dbres' = StoreResult(result.err, result.rows)
                         /\ resp' = UpdatePostResponse(updatedPost, postToUpdate, result)
    /\ UNCHANGED <<nextId, clock, procs>>

FindPostById(postId, up) ==
    /\ req' = Request("FindPostById", postId, "", NoPayload)
    /\ LET first == DBFirst(posts, postId, up)
       IN  /\ resp' = FindPostByIdResponse(first)
           /\ dbres' = StoreResult(first.err, 0)
    /\ UNCHANGED <<posts, nextId, clock, procs>>

DeletePost(postId, up) ==
    /\ req' = Request("DeletePost", postId, "", NoPayload)
    /\ LET result == DBDelete(posts, postId, up)
       IN  /\ posts' = result.posts
           /\ dbres' = StoreResult(result.err, result.rows)
           /\ resp' = DeletePostResponse(result)
    /\ UNCHANGED <<nextId, clock, procs>>

\* time passes
Tick ==
    /\ clock < MaxClock
    /\ clock' = clock + 1
    /\ UNCHANGED <<posts, nextId, req, resp, dbres, procs>>

DoCreatePost ==
    \E u \in Users, p \in CreatePayloads, up \in BOOLEAN : CreatePost(u, p, up)

DoUpdatePost ==
    \E id \in PostIds, u \in Users, p \in UpdatePayloads,
       up \in {<<TRUE, TRUE>>, <<TRUE, FALSE>>, <<FALSE, TRUE>>} :
        UpdatePost(id, u, p, up[1], up[2])

DoFindPostById == \E id \in PostIds, up \in BOOLEAN : FindPostById(id, up)

DoDeletePost == \E id \in PostIds, up \in BOOLEAN : DeletePost(id, up)

Next ==
    \/ DoCreatePost
    \/ DoUpdatePost
    \/ DoFindPostById
    \/ DoDeletePost
    \/ Tick

Spec == Init /\ [][Next]_vars

----------------------------------------------------------------------------
(* FindPosts: query parsing and the page it reads *)

DigitValue(c) ==
    CASE c = "0" -> 0 [] c = "1" -> 1 [] c = "2" -> 2 [] c = "3" -> 3
      [] c = "4" -> 4 [] c = "5" -> 5 [] c = "6" -> 6 [] c = "7" -> 7
      [] c = "8" -> 8 [] c = "9" -> 9 [] OTHER -> -1

IsDigit(c) == DigitValue(c) >= 0

RECURSIVE DigitsValue(_, _)
DigitsValue(s, acc) ==
    IF s = <<>> THEN acc
    ELSE DigitsValue(Tail(s), 10 * acc + DigitValue(Head(s)))

\* strconv.Atoi(s): an optional sign and one or more decimal digits; anything
\* else is a syntax error, with value 0
Atoi(s) ==
    LET signed == s # <<>> /\ Head(s) \in {"+", "-"}
        digits == IF signed THEN Tail(s) ELSE s
    IN  IF digits = <<>> \/ \E i \in DOMAIN digits : ~IsDigit(digits[i])
        THEN [val |-> 0, err |-> TRUE]
        ELSE [val |-> IF signed /\ Head(s) = "-"
                      THEN 0 - DigitsValue(digits, 0)
                      ELSE DigitsValue(digits, 0),
              err |-> FALSE]

\* a query parameter of the request: absent, or present with a value
NoParam == [present |-> FALSE, value |-> <<>>]
Param(v) == [present |-> TRUE, value |-> v]

\* ctx.DefaultQuery(key, defaultValue)
DefaultQuery(param, defaultValue) ==
    IF param.present THEN param.value ELSE defaultValue

RECURSIVE SkipRows(_, _)
SkipRows(rows, n) ==
    IF n <= 0 \/ rows = <<>> THEN rows ELSE SkipRows(Tail(rows), n - 1)

RECURSIVE TakeRows(_, _)
TakeRows(rows, n) ==
    IF n <= 0 \/ rows = <<>> THEN <<>>
    ELSE <<Head(rows)>> \o TakeRows(Tail(rows), n - 1)

\* pc.DB.Limit(limit).Offset(offset).Find(&posts): OFFSET is sent when
\* offset > 0.  LIMIT is sent when limit > 0; for limit = 0 the gorm release
\* decides: older ones send no LIMIT, newer ones send LIMIT 0 (limitZero).
\* A negative limit sends no LIMIT.
DBFind(store, limit, offset, up, limitZero) ==
    IF ~up THEN [err |-> ErrConnRefused, rows |-> <<>>]
    ELSE LET skipped == IF offset > 0 THEN SkipRows(store, offset) ELSE store
         IN  [err |-> NoError,
              rows |-> IF limit > 0 THEN TakeRows(skipped, limit)
                       ELSE IF limit = 0 /\ limitZero THEN <<>>
                       ELSE skipped]

\* FindPostsResponse with the offset of a page counted from 0
FindPostsResponse_PageFromZero(store, pageParam, limitParam, up, limitZero) ==
    LET page == DefaultQuery(pageParam, DefaultPage)
        limit == DefaultQuery(limitParam, DefaultLimit)
        intPage == Atoi(page).val
        intLimit == Atoi(limit).val
        offset == intPage * intLimit
        results == DBFind(store, intLimit, offset, up, limitZero)
    IN  IF results.err # NoError
        THEN [status |-> StatusBadGateway, results |-> 0, data |-> <<>>]
        ELSE [status |-> StatusOK, results |-> Len(results.rows),
              data |-> results.rows]

\* FindPosts, from the query to the response
FindPostsResponse(store, pageParam, limitParam, up, limitZero) ==
    LET page == DefaultQuery(pageParam, DefaultPage)
        limit == DefaultQuery(limitParam, DefaultLimit)
        intPage == Atoi(page).val
        intLimit == Atoi(limit).val
        offset == (intPage - 1) * intLimit
        results == DBFind(store, intLimit, offset, up, limitZero)
    IN  IF results.err # NoError
        THEN [status |-> StatusBadGateway, results |-> 0, data |-> <<>>]
        ELSE [status |-> StatusOK, results |-> Len(results.rows),
              data |-> results.rows]

\* a FindPosts request; limitZero is the gorm release of the build
ListRequest(pageParam, limitParam, limitZero) ==
    [op |-> "FindPosts", postId |-> 0, user |-> "", payload |-> NoPayload,
     page |-> pageParam, limit |-> limitParam, limitZero |-> limitZero]

Pending == Response(0, <<>>)

\* the handler serves the FindPosts request that has arrived
FindPosts(up) ==
    /\ req.op = "FindPosts"
    /\ resp = Pending
    /\ resp' = FindPostsResponse(posts, req.page, req.limit, up, req.limitZero)
    /\ dbres' = StoreResult(IF up THEN NoError ELSE ErrConnRefused, 0)
    /\ UNCHANGED <<posts, nextId, clock, req, procs>>

----------------------------------------------------------------------------
(* Listing: FindPosts over stores of up to MaxListPosts posts *)

RECURSIVE Itoa(_)
\* the decimal digits of n >= 0
Itoa(n) ==
    LET d == <<"0", "1", "2", "3", "4", "5", "6", "7", "8", "9">>
    IN  IF n < 10 THEN <<d[n + 1]>> ELSE Append(Itoa(n \div 10), d[(n % 10) + 1])

NonNumeric == {<<"a", "b", "c">>, <<>>, <<"1", "x">>, <<"-">>}

PageParams ==
    {Param(Itoa(n)) : n \in 0..MaxPage} \cup {Param(v) : v \in NonNumeric}
    \cup {Param(<<"-", "1">>), NoParam}

LimitParams ==
    {Param(Itoa(n)) : n \in 0..MaxLimit} \cup {Param(v) : v \in NonNumeric}
    \cup {Param(<<"-", "1">>), NoParam}

\* the table after n CreatePost calls with n different titles
ListStore(n) ==
    [i \in 1..n |->
        [id |-> i, title |-> "t" \o ToString(i), content |-> "c1",
         image |-> "i1", user |-> "u1", createdAt |-> 1, updatedAt |-> 1]]

InitList ==
    /\ posts \in {ListStore(n) : n \in 0..MaxListPosts}
    /\ nextId = Len(posts) + 1
    /\ clock = 1
    /\ req \in {ListRequest(pageParam, limitParam, limitZero) :
                    pageParam \in PageParams, limitParam \in LimitParams,
                    limitZero \in BOOLEAN}
    /\ resp = Pending
    /\ dbres = NoStoreCall
    /\ procs = [p \in Procs |-> Idle]

DoFindPosts == \E up \in BOOLEAN : FindPosts(up)

NextList == DoFindPosts

SpecList == InitList /\ [][NextList]_vars

Min(a, b) == IF a < b THEN a ELSE b
Max(a, b) == IF a > b THEN a ELSE b

\* the query value the handler parses
PageOf(r) == DefaultQuery(r.page, DefaultPage)
LimitOf(r) == DefaultQuery(r.limit, DefaultLimit)

\* C7: with page >= 1 and limit >= 1 FindPosts returns the records at
\* positions offset+1 .. offset+limit of the store's order, offset being
\* (page - 1) * limit: min(limit, max(0, n - offset)) of them, counted by
\* "results", and sharing no record with any other page; of 15 posts page 1
\* of 10 holds 10 and page 2 the other 5.
C7_Pagination ==
    \A page \in 1..(MaxPage + 1), limit \in 1..(MaxLimit + 1) :
        (/\ req.op = "FindPosts"
         /\ resp.status = StatusOK
         /\ PageOf(req) = Itoa(page)
         /\ LimitOf(req) = Itoa(limit))
        => LET n == Len(posts)
               offset == (page - 1) * limit
           IN  /\ resp.data = SubSeq(posts, offset + 1, Min(offset + limit, n))
               /\ Len(resp.data) = Min(limit, Max(0, n - offset))
               /\ resp.results = Len(resp.data)
               /\ \A other \in (1..(MaxPage + 1)) \ {page} :
                    IdsOf(resp.data)
                        \cap IdsOf(FindPostsResponse(posts, Param(Itoa(other)),
                                                     req.limit, TRUE, TRUE).data)
                        = {}
               /\ (n = 15 /\ limit = 10 /\ page = 1) => resp.results = 10
               /\ (n = 15 /\ limit = 10 /\ page = 2)
                    => /\ resp.results = 5
                       /\ IdsOf(resp.data) = IdsOf(posts) \ (1..10)

C7_Witness ==
    /\ req.op = "FindPosts"
    /\ resp.status = StatusOK
    /\ Len(posts) = 15
    /\ PageOf(req) = <<"2">>
    /\ LimitOf(req) = <<"1", "0">>
    /\ resp.results = 5

\* C8: FindPosts with a page or limit value that is no integer answers as it
\* does with that value replaced by its default (page 1, limit 10).
C8_NonNumericDegradesToDefault ==
    (/\ req.op = "FindPosts"
     /\ resp.status = StatusOK
     /\ Atoi(PageOf(req)).err \/ Atoi(LimitOf(req)).err)
    => resp = FindPostsResponse(
                posts,
                IF Atoi(PageOf(req)).err THEN NoParam ELSE req.page,
                IF Atoi(LimitOf(req)).err THEN NoParam ELSE req.limit,
                TRUE, req.limitZero)

----------------------------------------------------------------------------
(* Concurrent service: each goroutine serves one request, one store round  *)
(* trip per step; the steps of the two goroutines interleave               *)

\* a table the sequential service reaches: empty, or one post created at 1
InitialStores ==
    {<<>>} \cup
    {<<[id |-> 1, title |-> t, content |-> "c1", image |-> "i1",
        user |-> u, createdAt |-> 1, updatedAt |-> 1]>> :
        t \in Titles, u \in Users}

InitConc ==
    /\ posts \in InitialStores
    /\ nextId = Len(posts) + 1
    /\ clock = 1
    /\ req = Request("none", 0, "", NoPayload)
    /\ resp = Response(0, <<>>)
    /\ dbres = NoStoreCall
    /\ procs = [p \in Procs |-> Idle]

Done(p, r, response, result) ==
    procs' = [procs EXCEPT ![p] =
                [@ EXCEPT !.pc = "done", !.req = r, !.resp = response,
                          !.dbres = result]]

\* CreatePost to line 50: bind the payload, read the clock
BeginCreatePost(p, currentUser, payload) ==
    /\ procs[p].pc = "idle"
    /\ LET r == Request("CreatePost", 0, currentUser, payload)
       IN  IF ~payload.ok
           THEN Done(p, r, Response(StatusBadRequest, <<>>), NoStoreCall)
           ELSE procs' = [procs EXCEPT ![p] =
                    [@ EXCEPT !.pc = "create", !.req = r, !.now = clock,
                              !.startAbsent = payload.title \notin TitlesOf(posts)]]
    /\ UNCHANGED <<posts, nextId, clock, req, resp, dbres>>

\* CreatePost from line 52: DB.Create and the response
StoreCreatePost(p, up) ==
    /\ procs[p].pc = "create"
    /\ LET r == procs[p].req
           newPost == NewPost(r.user, r.payload, procs[p].now)
           result == DBCreate(posts, newPost, nextId, up)
       IN  /\ result.err = NoError => nextId <= MaxId
           /\ posts' = result.posts
           /\ nextId' = IF result.err = NoError THEN nextId + 1 ELSE nextId
           /\ Done(p, r, CreatePostResponse(result),
                   StoreResult(result.err, IF result.err = NoError THEN 1 ELSE 0))
    /\ UNCHANGED <<clock, req, resp, dbres>>

\* UpdatePost to line 84: bind the payload, DB.First
BeginUpdatePost(p, postId, currentUser, payload, up) ==
    /\ procs[p].pc = "idle"
    /\ LET r == Request("UpdatePost", postId, currentUser, payload)
           first == DBFirst(posts, postId, up)
       IN  IF ~payload.ok
           THEN Done(p, r, Response(StatusBadGateway, <<>>), NoStoreCall)
           ELSE IF UpdateLookupFailed(first)
           THEN Done(p, r, Response(StatusNotFound, <<>>), StoreResult(first.err, 0))
           ELSE procs' = [procs EXCEPT ![p] =
                    [@ EXCEPT !.pc = "update_now", !.req = r,
                              !.updatedPost = first.value]]
    /\ UNCHANGED <<posts, nextId, clock, req, resp, dbres>>

\* UpdatePost line 85: read the clock
NowUpdatePost(p) ==
    /\ procs[p].pc = "update_now"
    /\ procs' = [procs EXCEPT ![p] = [@ EXCEPT !.pc = "update_write", !.now = clock]]
    /\ UNCHANGED <<posts, nextId, clock, req, resp, dbres>>

\* UpdatePost from line 86: Updates and the response
StoreUpdatePost(p, up) ==
    /\ procs[p].pc = "update_write"
    /\ LET r == procs[p].req
           updatedPost == procs[p].updatedPost
           postToUpdate == PostToUpdate(r.user, r.payload, updatedPost, procs[p].now)
           result == DBUpdates(posts, updatedPost, postToUpdate, up)
       IN  /\ posts' = result.posts
           /\ Done(p, r, UpdatePostResponse(updatedPost, postToUpdate, result),
                   StoreResult(result.err, result.rows))
    /\ UNCHANGED <<nextId, clock, req, resp, dbres>>

GoFindPostById(p, postId, up) ==
    /\ procs[p].pc = "idle"
    /\ LET first == DBFirst(posts, postId, up)
       IN  Done(p, Request("FindPostById", postId, "", NoPayload),
                FindPostByIdResponse(first), StoreResult(first.err, 0))
    /\ UNCHANGED <<posts, nextId, clock, req, resp, dbres>>

GoDeletePost(p, postId, up) ==
    /\ procs[p].pc = "idle"
    /\ LET result == DBDelete(posts, postId, up)
       IN  /\ posts' = result.posts
           /\ Done(p, Request("DeletePost", postId, "", NoPayload),
                   DeletePostResponse(result), StoreResult(result.err, result.rows))
    /\ UNCHANGED <<nextId, clock, req, resp, dbres>>

DoBeginCreatePost ==
    \E p \in Procs, u \in Users, pl \in CreatePayloads : BeginCreatePost(p, u, pl)

DoStoreCreatePost == \E p \in Procs, up \in BOOLEAN : StoreCreatePost(p, up)

DoBeginUpdatePost ==
    \E p \in Procs, id \in PostIds, u \in Users, pl \in UpdatePayloads,
       up \in BOOLEAN :
        BeginUpdatePost(p, id, u, pl, up)

DoNowUpdatePost == \E p \in Procs : NowUpdatePost(p)

DoStoreUpdatePost == \E p \in Procs, up \in BOOLEAN : StoreUpdatePost(p, up)

DoGoFindPostById ==
    \E p \in Procs, id \in PostIds, up \in BOOLEAN : GoFindPostById(p, id, up)

DoGoDeletePost ==
    \E p \in Procs, id \in PostIds, up \in BOOLEAN : GoDeletePost(p, id, up)

NextConc ==
    \/ DoBeginCreatePost
    \/ DoStoreCreatePost
    \/ DoBeginUpdatePost
    \/ DoNowUpdatePost
    \/ DoStoreUpdatePost
    \/ DoGoFindPostById
    \/ DoGoDeletePost
    \/ Tick

SpecConc == InitConc /\ [][NextConc]_vars

\* two finished CreatePost calls with the same title that both arrived while
\* no stored post had that title, the store answering both
RacedCreates(p, q) ==
    /\ p # q
    /\ procs[p].pc = "done" /\ procs[q].pc = "done"
    /\ procs[p].req.op = "CreatePost" /\ procs[q].req.op = "CreatePost"
    /\ WellFormed(procs[p].req) /\ WellFormed(procs[q].req)
    /\ procs[p].req.payload.title = procs[q].req.payload.title
    /\ procs[p].startAbsent /\ procs[q].startAbsent
    /\ procs[p].dbres.err # ErrConnRefused
    /\ procs[q].dbres.err # ErrConnRefused

\* C3: of two concurrent CreatePost calls with the same, new title exactly one
\* answers 201, its record stored, and the other answers 409.
C3_ConcurrentCreate ==
    \A p, q \in Procs :
        RacedCreates(p, q)
        => /\ {procs[p].resp.status, procs[q].resp.status}
                = {StatusCreated, StatusConflict}
           /\ Cardinality({i \in DOMAIN posts :
                    posts[i].title = procs[p].req.payload.title}) = 1
           /\ \A w \in {p, q} :
                procs[w].resp.status = StatusCreated
                => /\ Len(procs[w].resp.data) = 1
                   /\ \E i \in DOMAIN posts : posts[i] = procs[w].resp.data[1]

C3_Witness ==
    /\ RacedCreates("g1", "g2")
    /\ procs["g1"].resp.status = StatusConflict
    /\ procs["g2"].resp.status = StatusCreated
    /\ procs["g1"].now < procs["g2"].now

----------------------------------------------------------------------------
(* Properties of the sequential service *)

\* a step that serves a request: handlers leave the clock alone, Tick moves it
Served == clock' = clock

\* C1: DeletePost with a postId that matches no stored post answers 404,
\* never 204.
C1_DeleteMissingIsNotFound ==
    [][(Served /\ req'.op = "DeletePost" /\ req'.postId \notin IdsOf(posts))
        => resp'.status = StatusNotFound]_vars

\* C2: CreatePost with the title of a stored post answers 409 (the store
\* answering), adds no record and leaves every stored post as it was and
\* readable by FindPostById; no two stored posts ever share a title.
C2_DuplicateTitleConflict ==
    /\ [](\A i, j \in DOMAIN posts : posts[i].title = posts[j].title => i = j)
    /\ [][(/\ Served
           /\ req'.op = "CreatePost"
           /\ WellFormed(req')
           /\ req'.payload.title \in TitlesOf(posts)
           /\ dbres'.err # ErrConnRefused)
          => /\ resp'.status = StatusConflict
             /\ posts' = posts
             /\ nextId' = nextId
             /\ \A id \in IdsOf(posts) :
                    FindPostByIdResponse(DBFirst(posts', id, TRUE))
                        = Response(StatusOK, <<RowOf(posts, id)>>)]_vars

C2_Witness ==
    /\ req.op = "CreatePost"
    /\ resp.status = StatusConflict
    /\ req.payload.title \in TitlesOf(posts)

\* C4: UpdatePost (payload well-formed) with a postId that matches no stored
\* post answers 404 and creates, modifies and removes nothing.
C4_UpdateMissingNotFound ==
    [][(/\ Served
        /\ req'.op = "UpdatePost"
        /\ WellFormed(req')
        /\ req'.postId \notin IdsOf(posts))
       => /\ resp'.status = StatusNotFound
          /\ posts' = posts
          /\ nextId' = nextId]_vars

C4_Witness ==
    /\ req.op = "UpdatePost"
    /\ WellFormed(req)
    /\ req.postId \notin IdsOf(posts)
    /\ resp.status = StatusNotFound
    /\ posts # <<>>

\* an UpdatePost whose write changed the row of its postId
UpdateApplied ==
    /\ Served
    /\ req'.op = "UpdatePost"
    /\ resp'.status = StatusOK
    /\ dbres'.err = NoError
    /\ dbres'.rows = 1

\* C5: an applied UpdatePost keeps the stored createdAt and stores an
\* updatedAt no smaller than the one before; createdAt <= updatedAt holds for
\* every stored post after any sequence of Create, Update and Delete calls.
C5_Timestamps ==
    /\ [](\A i \in DOMAIN posts : posts[i].createdAt <= posts[i].updatedAt)
    /\ [][UpdateApplied
          => /\ req'.postId \in IdsOf(posts) \cap IdsOf(posts')
             /\ RowOf(posts', req'.postId).createdAt
                    = RowOf(posts, req'.postId).createdAt
             /\ RowOf(posts', req'.postId).updatedAt
                    >= RowOf(posts, req'.postId).updatedAt]_vars

C5_Witness ==
    /\ req.op = "UpdatePost"
    /\ resp.status = StatusOK
    /\ dbres.rows = 1
    /\ req.postId \in IdsOf(posts)
    /\ RowOf(posts, req.postId).createdAt < RowOf(posts, req.postId).updatedAt

\* C6: the owner of a stored post never changes, whoever updates it.
C6_OwnerImmutable ==
    [][\A id \in IdsOf(posts) \cap IdsOf(posts') :
        RowOf(posts', id).user = RowOf(posts, id).user]_vars

\* C9: a DeletePost answered 204 on the id of a stored post removes that row
\* and leaves every other row as it was; an id that has left the store never
\* comes back, and FindPostById on it answers 404.
C9_DeleteIsPermanent ==
    /\ [][(/\ Served
           /\ req'.op = "DeletePost"
           /\ resp'.status = StatusNoContent
           /\ req'.postId \in IdsOf(posts))
          => /\ req'.postId \notin IdsOf(posts')
             /\ posts' = SelectSeq(posts, LAMBDA r : r.id # req'.postId)]_vars
    /\ [][\A id \in 1..(nextId - 1) :
            id \notin IdsOf(posts) => id \notin IdsOf(posts')]_vars
    /\ [][(/\ Served
           /\ req'.op = "FindPostById"
           /\ req'.postId \notin IdsOf(posts))
          => resp'.status = StatusNotFound]_vars

C9_Witness ==
    /\ req.op = "FindPostById"
    /\ req.postId < nextId
    /\ req.postId \notin IdsOf(posts)
    /\ resp.status = StatusNotFound
    /\ posts # <<>>

\* C10: an UpdatePost whose store write failed or changed no row does not
\* answer 200.
C10_UpdateFailureReported ==
    (req.op = "UpdatePost" /\ (dbres.err # NoError \/ dbres.rows = 0))
        => resp.status # StatusOK

====
